---- MODULE Spec2Model ----
(***************************************************************************)
(* SmartDoc task pane: the three React views over the Outlook mail item.   *)
(*   "TextInsertion"     src/src/taskpane/components/TextInsertion.tsx     *)
(*   "AttachmentProcess" src/src/taskpane/components/AttachmentProcess.tsx *)
(*   "processEmailData"  src/unnamed/part_000 (consent + metadata)         *)
(* One view is mounted over one open mail item.  A JavaScript string that  *)
(* the code only passes along is a TLA+ string; a string whose characters  *)
(* the code reads (the base64 content) is the sequence of its char codes.  *)
(* null is the empty sequence and a non-null value v is <<v>>.             *)
(***************************************************************************)
EXTENDS Naturals, Sequences, FiniteSets, Bags, TLC

VARIABLES
  view,                   \* which component is mounted
  item,                   \* Office.context.mailbox.item (host, read-only)
  attachments,            \* useState<Attachment[]>([])
  isAttachmentFetched,    \* useState<boolean | null>(null)
  isSubmissionInitiated,  \* useState<boolean>(false)
  isConsent,              \* useState<boolean>(false)
  metaData,               \* useState(null)
  submits,                \* number of Submit clicks so far
  calls,                  \* bag of getAttachmentContentAsync calls [click, id],
                          \* those that threw included
  pending,                \* result callbacks the host has not yet invoked
  results,                \* result callbacks the host has invoked
  downloads,              \* bag of files delivered by a.click() / link.click()
  console,                \* messages written by console.error
  uncaught                \* errors that escaped every try/catch

vars == <<view, item, attachments, isAttachmentFetched, isSubmissionInitiated,
          isConsent, metaData, submits, calls, pending, results, downloads,
          console, uncaught>>

(* ------------------------------ bounds -------------------------------- *)

MaxAttachments == 2

MaxSubmits == 2

MaxBytes == 3

(* ------------------------- values and views --------------------------- *)

Null == <<>>

Some(v) == <<v>>

Views == {"TextInsertion", "AttachmentProcess", "processEmailData"}

\* The views that keep isSubmissionInitiated and render the success banner.
HasBanner == view \in {"AttachmentProcess", "processEmailData"}

Base64 == "base64"

Formats == {Base64, "eml", "iCalendar"}

(* ------------------------------ base64 -------------------------------- *)

Pad == 61

\* The char code of base64 digit v (A-Z a-z 0-9 + /).
B64Char(v) ==
  IF v < 26 THEN 65 + v
  ELSE IF v < 52 THEN 97 + (v - 26)
  ELSE IF v < 62 THEN 48 + (v - 52)
  ELSE IF v = 62 THEN 43 ELSE 47

\* The value of the base64 digit with char code c.
B64Val(c) ==
  IF c >= 65 /\ c <= 90 THEN c - 65
  ELSE IF c >= 97 /\ c <= 122 THEN c - 97 + 26
  ELSE IF c >= 48 /\ c <= 57 THEN c - 48 + 52
  ELSE IF c = 43 THEN 62 ELSE 63

RECURSIVE Btoa(_)
\* The host's encoding of an attachment's bytes (what arrives as content).
Btoa(b) ==
  IF Len(b) = 0 THEN <<>>
  ELSE IF Len(b) = 1 THEN
    LET n == b[1] * 16
    IN <<B64Char(n \div 64), B64Char(n % 64), Pad, Pad>>
  ELSE IF Len(b) = 2 THEN
    LET n == (b[1] * 256 + b[2]) * 4
    IN <<B64Char(n \div 4096), B64Char((n \div 64) % 64), B64Char(n % 64), Pad>>
  ELSE
    LET n == b[1] * 65536 + b[2] * 256 + b[3]
    IN <<B64Char(n \div 262144), B64Char((n \div 4096) % 64),
         B64Char((n \div 64) % 64), B64Char(n % 64)>>
       \o Btoa(SubSeq(b, 4, Len(b)))

\* atob first drops the one or two trailing '=' of a whole number of groups.
StripPad(s) ==
  IF Len(s) > 0 /\ Len(s) % 4 = 0 /\ s[Len(s)] = Pad
  THEN IF s[Len(s) - 1] = Pad THEN SubSeq(s, 1, Len(s) - 2)
       ELSE SubSeq(s, 1, Len(s) - 1)
  ELSE s

RECURSIVE DecodeDigits(_)
\* Six bits per digit, eight per char code; the left-over bits are dropped.
DecodeDigits(s) ==
  IF Len(s) < 2 THEN <<>>
  ELSE IF Len(s) = 2 THEN
    <<(B64Val(s[1]) * 64 + B64Val(s[2])) \div 16>>
  ELSE IF Len(s) = 3 THEN
    LET n == B64Val(s[1]) * 4096 + B64Val(s[2]) * 64 + B64Val(s[3])
    IN <<n \div 1024, (n \div 4) % 256>>
  ELSE
    LET n == B64Val(s[1]) * 262144 + B64Val(s[2]) * 4096
             + B64Val(s[3]) * 64 + B64Val(s[4])
    IN <<n \div 65536, (n \div 256) % 256, n % 256>>
       \o DecodeDigits(SubSeq(s, 5, Len(s)))

\* atob(content): the binary string, one char code per decoded byte.
Atob(content) == DecodeDigits(StripPad(content))

\* byteNumbers[i] = byteCharacters.charCodeAt(i), for i < byteCharacters.length.
ByteNumbers(byteCharacters) ==
  [i \in 1..Len(byteCharacters) |-> byteCharacters[i]]

\* new Uint8Array(byteNumbers): each element modulo 2^8.
Uint8Array(byteNumbers) ==
  [i \in 1..Len(byteNumbers) |-> byteNumbers[i] % 256]

\* new Blob([byteArray], {type}) and new Blob([string], {type}).
BlobOfBytes(byteArray, type) == [type |-> type, bytes |-> byteArray, text |-> ""]

BlobOfText(string, type) == [type |-> type, bytes |-> <<>>, text |-> string]

(* ---------------------------- the host -------------------------------- *)

AttId(i) == "id" \o ToString(i)

ByteVals == {0, 77, 255}

RECURSIVE SeqsUpTo(_, _)
\* The sequences over S of length 0..n.
SeqsUpTo(S, n) ==
  IF n = 0 THEN {<<>>}
  ELSE LET shorter == SeqsUpTo(S, n - 1)
       IN shorter \cup {Append(s, x) : s \in {t \in shorter : Len(t) = n - 1}, x \in S}

\* What one attachment of the mail item holds besides its id.
Files ==
  { [name |-> "a.pdf", contentType |-> "application/pdf",
     format |-> Base64, bytes |-> <<37, 80>>, text |-> ""],
    [name |-> "b.eml", contentType |-> "message/rfc822",
     format |-> "eml", bytes |-> <<>>, text |-> "From: x"] }

\* One attachment, every format, every short content.
DecodeFiles ==
  { [name |-> "a.bin", contentType |-> "image/png",
     format |-> f, bytes |-> b, text |-> t] :
       f \in Formats, b \in SeqsUpTo(ByteVals, MaxBytes), t \in {"", "BEGIN"} }

\* item.attachments: AttachmentDetails with distinct ids, in the host's order.
AttachmentLists(files, maxLen) ==
  { [i \in 1..Len(fs) |->
       [id |-> AttId(i), name |-> fs[i].name, contentType |-> fs[i].contentType,
        format |-> fs[i].format, bytes |-> fs[i].bytes, text |-> fs[i].text]] :
    fs \in SeqsUpTo(files, maxLen) }

\* The open mail item.  attachmentsDefined: item.attachments is an array
\* (it is undefined outside read mode).  to: the To recipients, possibly
\* none.  contentApi: the host implements getAttachmentContentAsync.
Item(atts, defined, to, api) ==
  [attachments |-> atts, attachmentsDefined |-> defined,
   sender |-> "ann@x.org", to |-> to, subject |-> "Q3",
   conversationId |-> "conv7", itemId |-> "item9", dateTimeCreated |-> 1700,
   contentApi |-> api]

\* The lists in which neighbouring attachments differ: the views read a
\* list's length and order and each element's own fields, nothing else.
MixedLists ==
  { l \in AttachmentLists(Files, MaxAttachments) :
      \A i \in 1..(Len(l) - 1) : l[i].name # l[i + 1].name }

HostItems ==
  { Item(atts, TRUE, to, api) :
      atts \in MixedLists,
      to \in {<<>>, <<"bob@x.org">>}, api \in BOOLEAN }
  \cup { Item(<<>>, FALSE, <<"bob@x.org">>, TRUE) }

DecodeItems ==
  { Item(atts, TRUE, <<"bob@x.org">>, TRUE) :
      atts \in {a \in AttachmentLists(DecodeFiles, 1) : Len(a) = 1} }

\* The attachment of the item that the host finds for an id.
HostAttachment(id) ==
  CHOOSE a \in {item.attachments[i] : i \in DOMAIN item.attachments} : a.id = id

\* result.value of a Succeeded getAttachmentContentAsync(id, ...).
HostContent(id) ==
  LET a == HostAttachment(id)
  IN [format |-> a.format,
      content |-> IF a.format = Base64 THEN Btoa(a.bytes) ELSE a.text]

(* ------------------------------- Init --------------------------------- *)

\* TextInsertion.tsx never reads the envelope: there the To line is left
\* filled in.
InitOver(items) ==
  /\ view \in Views
  /\ item \in items
  /\ view = "TextInsertion" => item.to # <<>>
  /\ attachments = <<>>
  /\ isAttachmentFetched = Null
  /\ isSubmissionInitiated = FALSE
  /\ isConsent = FALSE
  /\ metaData = Null
  /\ submits = 0
  /\ calls = EmptyBag
  /\ pending = {}
  /\ results = {}
  /\ downloads = EmptyBag
  /\ console = {}
  /\ uncaught = {}

Init == InitOver(HostItems)

InitDecode == InitOver(DecodeItems)

(* ------------------------ what is rendered ---------------------------- *)

\* The details block of AttachmentProcess.tsx reads item.to[0].emailAddress
\* while rendering: with no To recipient the render throws and React
\* unmounts the whole view.
RenderThrows ==
  /\ view = "AttachmentProcess"
  /\ Len(attachments) > 0 /\ ~isSubmissionInitiated
  /\ item.to = <<>>

\* The Fetch / Proceed button is in the tree.
FetchRendered ==
  IF view = "TextInsertion" THEN TRUE ELSE Len(attachments) = 0

\* Its disabled attribute.
FetchDisabled ==
  IF view = "processEmailData"
  THEN ~isConsent /\ Len(attachments) > 0
  ELSE Len(attachments) > 0

\* The consent checkbox is in the tree.
ConsentRendered == view = "processEmailData" /\ Len(attachments) = 0

\* Faulty variant: the test of the list's length is left out.
NoAttachmentsMessageAnyLength ==
  /\ isAttachmentFetched # Null
  /\ isAttachmentFetched = Some(FALSE)

\* "No attachments found in this email".
NoAttachmentsMessage ==
  /\ isAttachmentFetched # Null
  /\ Len(attachments) = 0
  /\ isAttachmentFetched = Some(FALSE)

\* The attachment list and the Submit button are in the tree.
SubmitRendered ==
  IF view = "TextInsertion"
  THEN Len(attachments) > 0
  ELSE Len(attachments) > 0 /\ ~isSubmissionInitiated /\ ~RenderThrows

\* The green success banner.
BannerRendered == HasBanner /\ isSubmissionInitiated

(* --------------------- enumerating the attachments -------------------- *)

RECURSIVE PushNames(_, _)
\* names after the forEach has pushed {id, name} for each element of list.
PushNames(names, list) ==
  IF list = <<>> THEN names
  ELSE PushNames(Append(names, [id |-> Head(list).id, name |-> Head(list).name]),
                 Tail(list))

\* Faulty variant: each element is put in front (unshift for push).
EnumeratedNamesReversed(list) ==
  [i \in 1..Len(list) |-> PushNames(<<>>, list)[Len(list) + 1 - i]]

\* const names = []; forEach(push); the array every setAttachments(names) stores.
EnumeratedNames(list) == PushNames(<<>>, list)

\* Faulty variant: the flag is taken from the array just filled.
FetchedFlagFromNames(stateAttachments, names) == Len(names) > 0

\* setIsAttachmentFetched(attachments.length > 0): attachments is the state
\* of the render that made the handler, names the array just filled.
FetchedFlag(stateAttachments, names) == Len(stateAttachments) > 0

\* The try / catch of fetchAttachments and fetchAttachmentMetadata.
EnumerateAttachments ==
  IF item.attachmentsDefined
  THEN LET names == EnumeratedNames(item.attachments)
       IN /\ attachments' = IF Len(item.attachments) > 0 THEN names ELSE attachments
          /\ isAttachmentFetched' = Some(FetchedFlag(attachments, names))
          /\ console' = console
  ELSE /\ attachments' = attachments
       /\ isAttachmentFetched' = Some(FALSE)
       /\ console' = console \cup {"Error fetching attachments:"}

\* Fetch Attachments / Fetch MetaData click (the two views without consent).
fetchAttachments ==
  /\ view \in {"TextInsertion", "AttachmentProcess"}
  /\ FetchRendered /\ ~FetchDisabled
  /\ EnumerateAttachments
  /\ UNCHANGED <<view, item, isSubmissionInitiated, isConsent, metaData, submits,
                 calls, pending, results, downloads, uncaught>>

(* ---------------------- consent and the metadata ---------------------- *)

\* onChange of the checkbox: e.target.checked is the box's new state.
setIsConsent ==
  /\ ConsentRendered
  /\ isConsent' = ~isConsent
  /\ UNCHANGED <<view, item, attachments, isAttachmentFetched, isSubmissionInitiated,
                 metaData, submits, calls, pending, results, downloads, console,
                 uncaught>>

\* Faulty variant: sender and recipient exchanged.
EnvelopeSwapped ==
  [sender |-> item.to[1], to |-> item.sender, subject |-> item.subject,
   conversationId |-> item.conversationId, itemId |-> item.itemId,
   timeStamp |-> ToString(item.dateTimeCreated)]

\* The record getMetadata builds (to[0] must exist).
Envelope ==
  [sender |-> item.sender, to |-> item.to[1], subject |-> item.subject,
   conversationId |-> item.conversationId, itemId |-> item.itemId,
   timeStamp |-> ToString(item.dateTimeCreated)]

\* Proceed click.  With no To recipient, to[0].emailAddress throws inside the
\* async function before setMetaData: the promise nobody awaits rejects.
getMetadata ==
  /\ view = "processEmailData"
  /\ FetchRendered /\ ~FetchDisabled
  /\ IF item.to = <<>>
     THEN /\ uncaught' = uncaught \cup {"getMetadata"}
          /\ UNCHANGED <<attachments, isAttachmentFetched, console, metaData>>
     ELSE /\ metaData' = Some(Envelope)
          /\ EnumerateAttachments
          /\ uncaught' = uncaught
  /\ UNCHANGED <<view, item, isSubmissionInitiated, isConsent, submits, calls,
                 pending, results, downloads>>

Quoted(s) == "\"" \o s \o "\""

\* JSON.stringify of null or of a flat record of strings (none needs escaping).
JSONstringify(md) ==
  IF md = Null THEN "null"
  ELSE LET m == md[1]
       IN "{" \o Quoted("sender") \o ":" \o Quoted(m.sender)
          \o "," \o Quoted("to") \o ":" \o Quoted(m.to)
          \o "," \o Quoted("subject") \o ":" \o Quoted(m.subject)
          \o "," \o Quoted("conversationId") \o ":" \o Quoted(m.conversationId)
          \o "," \o Quoted("itemId") \o ":" \o Quoted(m.itemId)
          \o "," \o Quoted("timeStamp") \o ":" \o Quoted(m.timeStamp)
          \o "}"

\* The file link.click() delivers in downloadMetaData(metaData).
downloadMetaData(md, click) ==
  [click |-> click, src |-> 0, name |-> "metadata.txt",
   blob |-> BlobOfText(JSONstringify(md), "text/plain")]

(* ------------------------------ Submit -------------------------------- *)

\* What one forEach callback closes over before it calls the host.
Closure(click, i) ==
  [click |-> click, idx |-> i, attachmentId |-> item.attachments[i].id,
   name |-> item.attachments[i].name,
   contentType |-> item.attachments[i].contentType]

\* Faulty variant: the metadata file is not delivered by the click itself.
SubmitEffectsDeferringMetadata ==
  LET click == submits + 1
      n == Len(item.attachments)
  IN /\ submits' = click
     /\ calls' = calls (+) SetToBag({[click |-> click, id |-> item.attachments[i].id] :
                                      i \in 1..n})
     /\ IF item.contentApi
        THEN /\ pending' = pending \cup {Closure(click, i) : i \in 1..n}
             /\ uncaught' = uncaught
        ELSE /\ pending' = pending
             /\ uncaught' = uncaught \cup {"getAttachmentContentAsync"}
     /\ UNCHANGED <<downloads, console>>

\* Everything a Submit click does outside the component's state.
SubmitEffects ==
  LET click == submits + 1
      n == Len(item.attachments)
  IN /\ submits' = click
     /\ IF item.attachmentsDefined
        THEN /\ calls' = calls (+) SetToBag({[click |-> click, id |-> item.attachments[i].id] :
                                              i \in 1..n})
             /\ IF item.contentApi
                THEN /\ pending' = pending \cup {Closure(click, i) : i \in 1..n}
                     /\ uncaught' = uncaught
                ELSE /\ pending' = pending
                     /\ uncaught' = uncaught \cup {"getAttachmentContentAsync"}
             /\ downloads' = IF view = "processEmailData"
                             THEN downloads (+) SetToBag({downloadMetaData(metaData, click)})
                             ELSE downloads
             /\ console' = console
        ELSE /\ console' = console \cup {"Error fetching attachments"}
             /\ UNCHANGED <<calls, pending, uncaught, downloads>>

\* Faulty variant: the form is cleared on Submit.
downloadAttachmentsResetting ==
  /\ SubmitRendered
  /\ submits < MaxSubmits
  /\ SubmitEffects
  /\ attachments' = <<>>
  /\ UNCHANGED <<view, item, isAttachmentFetched, isSubmissionInitiated,
                 isConsent, metaData, results>>

\* Submit click.
downloadAttachments ==
  /\ SubmitRendered
  /\ submits < MaxSubmits
  /\ SubmitEffects
  /\ UNCHANGED <<view, item, attachments, isAttachmentFetched, isSubmissionInitiated,
                 isConsent, metaData, results>>

(* ------------------------ the result callbacks ------------------------ *)

\* Faulty variant: the copy loop stops one char code early.
DecodedBlobShort(value, attachmentContentType) ==
  IF value.format = Base64
  THEN LET s == Atob(value.content)
       IN BlobOfBytes(Uint8Array(ByteNumbers(SubSeq(s, 1, Len(s) - 1))),
                      "application/octet-stream")
  ELSE BlobOfText(value.content, attachmentContentType)

\* The blob built from result.value: by the format flag alone.
DecodedBlob(value, attachmentContentType) ==
  LET contentType == IF value.format = Base64 THEN "application/octet-stream"
                     ELSE attachmentContentType
  IN IF value.format = Base64
     THEN BlobOfBytes(Uint8Array(ByteNumbers(Atob(value.content))), contentType)
     ELSE BlobOfText(value.content, contentType)

\* Faulty variant: a loop variable shared by all callbacks (the last attachment).
DownloadNameOfLast(p) == item.attachments[Len(item.attachments)].name

\* a.download = attachment.name, the attachment of the callback's own closure.
DownloadName(p) == p.name

\* The host invokes a pending callback with status Succeeded.
ContentSucceeded(p) ==
  /\ p \in pending
  /\ pending' = pending \ {p}
  /\ results' = results \cup {[click |-> p.click, idx |-> p.idx,
                               attachmentId |-> p.attachmentId, status |-> "succeeded"]}
  /\ downloads' = downloads (+) SetToBag({[click |-> p.click, src |-> p.idx,
                      name |-> DownloadName(p),
                      blob |-> DecodedBlob(HostContent(p.attachmentId), p.contentType)]})
  /\ isSubmissionInitiated' = IF HasBanner THEN TRUE ELSE isSubmissionInitiated
  /\ UNCHANGED <<view, item, attachments, isAttachmentFetched, isConsent, metaData,
                 submits, calls, console, uncaught>>

\* The host invokes a pending callback with a failed status.
ContentFailed(p) ==
  /\ p \in pending
  /\ pending' = pending \ {p}
  /\ results' = results \cup {[click |-> p.click, idx |-> p.idx,
                               attachmentId |-> p.attachmentId, status |-> "failed"]}
  /\ console' = console \cup {"Error fetching attachment content"}
  /\ isSubmissionInitiated' = IF HasBanner THEN FALSE ELSE isSubmissionInitiated
  /\ UNCHANGED <<view, item, attachments, isAttachmentFetched, isConsent, metaData,
                 submits, calls, downloads, uncaught>>

(* --------------------------- specifications --------------------------- *)

Next ==
  \/ fetchAttachments
  \/ setIsConsent
  \/ getMetadata
  \/ downloadAttachments
  \/ \E p \in pending : ContentSucceeded(p)
  \/ \E p \in pending : ContentFailed(p)

Spec == Init /\ [][Next]_vars

SpecDecode == InitDecode /\ [][Next]_vars

(* ------------------------------ claims -------------------------------- *)

\* C1: in the consent view every step that runs getMetadata (a Proceed
\* click) starts in a state where isConsent is true.
ConsentGatesProceed == [][getMetadata => isConsent]_vars

\* C2: no error of a host call escapes its handler, and an error while
\* enumerating the attachments leaves isAttachmentFetched false and a
\* console message.
HostErrorsCaught ==
  /\ uncaught = {}
  /\ (~item.attachmentsDefined /\ isAttachmentFetched # Null)
       => /\ isAttachmentFetched = Some(FALSE)
          /\ "Error fetching attachments:" \in console

SnapshotsPopulatedByFetch ==
  /\ isAttachmentFetched = Null => (attachments = <<>> /\ metaData = Null)
  /\ (isAttachmentFetched # Null /\ item.attachmentsDefined)
       => /\ Len(attachments) = Len(item.attachments)
          /\ \A i \in 1..Len(item.attachments) :
               attachments[i] = [id |-> item.attachments[i].id,
                                 name |-> item.attachments[i].name]
          /\ view = "processEmailData"
               => /\ metaData # Null
                  /\ DOMAIN metaData[1] = {"sender", "to", "subject",
                                           "conversationId", "itemId", "timeStamp"}
                  /\ metaData[1].sender = "ann@x.org"
                  /\ metaData[1].to = "bob@x.org"
                  /\ metaData[1].subject = "Q3"
                  /\ metaData[1].conversationId = "conv7"
                  /\ metaData[1].itemId = "item9"
                  /\ metaData[1].timeStamp = "1700"

FetchedTwoWithMetadata ==
  /\ view = "processEmailData"
  /\ isAttachmentFetched # Null
  /\ Len(attachments) >= 2
  /\ attachments[1].name # attachments[2].name
  /\ metaData # Null

\* C5: once attachments is non-empty no step changes attachments, metaData,
\* isAttachmentFetched or isConsent; a Submit click and a result callback
\* change none of them; an attachment descriptor never holds more than id
\* and name.
SnapshotsImmutableOnceRead ==
  [][/\ attachments # <<>>
          => UNCHANGED <<attachments, metaData, isAttachmentFetched, isConsent>>
     /\ (submits' # submits \/ results' # results)
          => UNCHANGED <<attachments, metaData, isAttachmentFetched, isConsent>>
     /\ \A i \in DOMAIN attachments' : DOMAIN attachments'[i] = {"id", "name"}
    ]_vars

SubmittedAndCalledBack ==
  /\ view = "processEmailData"
  /\ attachments # <<>>
  /\ submits >= 2
  /\ \E r \in results : r.status = "succeeded"
  /\ \E r \in results : r.status = "failed"

\* The number of files delivered for click c by source src (0: the
\* metadata, i: the callback of the i-th attachment).
Delivered(c, src) ==
  LET ds == {d \in BagToSet(downloads) : d.click = c /\ d.src = src}
  IN IF ds = {} THEN 0
     ELSE IF Cardinality(ds) = 1 THEN CopiesIn(CHOOSE d \in ds : TRUE, downloads)
     ELSE 2

\* C6: every Submit click calls getAttachmentContentAsync once per host
\* attachment, with its id; a Succeeded callback delivers exactly one file,
\* named as the attachment whose id was requested; a failed or pending one
\* delivers none, and every other callback of the click is still delivered
\* or pending.
OneFetchAndOneDownloadPerAttachment ==
  /\ BagCardinality(calls) = submits * Len(item.attachments)
  /\ \A c \in 1..submits : \A i \in 1..Len(item.attachments) :
       /\ CopiesIn([click |-> c, id |-> item.attachments[i].id], calls) = 1
       /\ item.contentApi =>
            Cardinality({p \in pending : p.click = c /\ p.idx = i})
            + Cardinality({r \in results : r.click = c /\ r.idx = i}) = 1
  /\ \A r \in results :
       /\ r.attachmentId = item.attachments[r.idx].id
       /\ IF r.status = "succeeded"
          THEN /\ Delivered(r.click, r.idx) = 1
               /\ \A d \in BagToSet(downloads) :
                    (d.click = r.click /\ d.src = r.idx)
                      => d.name = HostAttachment(r.attachmentId).name
          ELSE Delivered(r.click, r.idx) = 0
  /\ \A p \in pending : Delivered(p.click, p.idx) = 0

FailedBesideSucceeded ==
  \E r1 \in results, r2 \in results :
    /\ r1.click = r2.click
    /\ r1.status = "failed" /\ r2.status = "succeeded"
    /\ r2.idx < r1.idx
    /\ item.attachments[r1.idx].name # item.attachments[r2.idx].name
    /\ Delivered(r2.click, r2.idx) = 1

\* C7: in the consent view every Submit click has delivered exactly one
\* file metadata.txt, of type text/plain, whose text is the JSON of the
\* six envelope fields (never the text null), whatever the content fetches
\* did.
OneMetadataFilePerSubmit ==
  view = "processEmailData" =>
    \A c \in 1..submits :
      /\ Delivered(c, 0) = 1
      /\ \A d \in BagToSet(downloads) :
           (d.click = c /\ d.src = 0)
             => /\ d.name = "metadata.txt"
                /\ d.blob.type = "text/plain"
                /\ d.blob.text # "null"
                /\ d.blob.text =
                     "{\"sender\":\"ann@x.org\",\"to\":\"bob@x.org\",\"subject\":\"Q3\",\"conversationId\":\"conv7\",\"itemId\":\"item9\",\"timeStamp\":\"1700\"}"

MetadataDeliveredDespiteFailure ==
  /\ view = "processEmailData"
  /\ submits >= 1
  /\ Delivered(1, 0) = 1
  /\ pending = {}
  /\ \A r \in results : r.status = "failed"
  /\ results # {}

\* C8: a file delivered by a result callback holds, when the host format is
\* Base64, exactly the bytes whose base64 encoding is the content, with
\* type application/octet-stream; for any other format it holds the content
\* string itself, with the attachment's own contentType.
BlobDecodedByFormat ==
  \A d \in BagToSet(downloads) :
    d.src >= 1 =>
      LET a == item.attachments[d.src]
          value == HostContent(a.id)
      IN IF a.format = Base64
         THEN /\ d.blob.type = "application/octet-stream"
              /\ \A i \in DOMAIN d.blob.bytes : d.blob.bytes[i] \in 0..255
              /\ Btoa(d.blob.bytes) = value.content
              /\ d.blob.bytes = a.bytes
              /\ d.blob.text = ""
         ELSE /\ d.blob.type = a.contentType
              /\ d.blob.text = value.content
              /\ d.blob.bytes = <<>>

DecodedPaddedBase64 ==
  \E d \in BagToSet(downloads) :
    /\ d.src >= 1
    /\ item.attachments[d.src].format = Base64
    /\ Len(d.blob.bytes) = 2
    /\ d.blob.bytes[1] = 255

\* C9: when no result callback is pending after a Submit click, the
\* success banner is shown only if every content fetch succeeded.
BannerOnlyIfAllSucceeded ==
  (HasBanner /\ submits > 0 /\ pending = {} /\ BannerRendered)
    => \A r \in results : r.status = "succeeded"

\* C10: once isSubmissionInitiated is true it stays true.
BannerStable == [][isSubmissionInitiated => isSubmissionInitiated']_vars

\* C11: in the consent view a step that delivers the file of an attachment
\* requested by a Submit click starts in a state where the metadata.txt of
\* that click has already been delivered (the click does not wait for the
\* content fetches); the callbacks are not tied to the host list's order.
MetadataBeforeAttachments ==
  [][view = "processEmailData" =>
       \A c \in 1..submits' : \A i \in 1..Len(item.attachments) :
         (Delivered(c, i))' > Delivered(c, i) => Delivered(c, 0) = 1
    ]_vars

SecondAttachmentDeliveredFirst ==
  /\ view = "processEmailData"
  /\ \E c \in 1..submits :
       /\ Delivered(c, 0) = 1
       /\ Len(item.attachments) >= 2
       /\ Delivered(c, 2) = 1
       /\ Delivered(c, 1) = 0
       /\ \E p \in pending : p.click = c /\ p.idx = 1

\* A step in which the attachment enumeration ran to its end (through the
\* try or through the catch).
FetchStep == fetchAttachments \/ (getMetadata /\ item.to # <<>>)

\* C12: the message 'No attachments found in this email' is not shown
\* before a fetch, appears only by a fetch, is shown only while the
\* attachments state is empty (never with the attachment list or the Submit
\* button), and after a fetch on an item with zero attachments it is shown
\* and the fetch trigger is still rendered and enabled.
NoAttachmentsMessageOnlyAfterEmptyFetch ==
  /\ ~NoAttachmentsMessage
  /\ [][/\ (NoAttachmentsMessage' /\ ~NoAttachmentsMessage) => FetchStep
        /\ NoAttachmentsMessage' =>
             /\ isAttachmentFetched' # Null
             /\ Len(attachments') = 0
             /\ ~SubmitRendered'
        /\ (FetchStep /\ Len(item.attachments) = 0) =>
             /\ NoAttachmentsMessage'
             /\ FetchRendered' /\ ~FetchDisabled'
       ]_vars

MessageShownFetchAvailable ==
  /\ item.attachmentsDefined /\ Len(item.attachments) = 0
  /\ NoAttachmentsMessage
  /\ FetchRendered /\ ~FetchDisabled
  /\ ~SubmitRendered

====
